---- MODULE Spec2Model ----
(***************************************************************************)
(* Valentine's greeting generator: the create and get handlers             *)
(* (api/create.js, api/get.js) over the greetings table                    *)
(* (supabase-setup.sql), and the demo server (local-demo-server.js) over   *)
(* its in-memory Map.  A process serves one of the two back ends.          *)
(*                                                                         *)
(* A JavaScript string is kept as its run-length encoding: a sequence of   *)
(* runs [c, n] (character c repeated n > 0 times, neighbouring runs of     *)
(* different characters), so that strings of 500 and 501 characters are    *)
(* values of the model and length and trim are computed exactly.           *)
(***************************************************************************)
EXTENDS Integers, Sequences, FiniteSets, TLC

\* ------------------------------------------------------------------ bounds

\* Create requests handled in one behaviour (each one advances the clock).
MaxCreates == 2

\* The entries of config.days, the day themes of the page (0 .. NumDays - 1).
NumDays == 2

\* --------------------------------------------------------- program constants

MAX_NAME_LENGTH == 100

MAX_MESSAGE_LENGTH == 500

ID_LENGTH == 8

DEMO_ID_LENGTH == 8

\* ------------------------------------------------------------- JS values

Run(c, n) == [c |-> c, n |-> n]

Undefined == [t |-> "undefined", runs |-> <<>>, num |-> 0]

Str(runs) == [t |-> "string", runs |-> runs, num |-> 0]

Num(n) == [t |-> "number", runs |-> <<>>, num |-> n]

\* String.prototype.trim strips these (those of them the samples use).
WhiteSpace == {" ", "\t", "\n"}

RECURSIVE RunsLength(_)
RunsLength(runs) ==
    IF runs = <<>> THEN 0 ELSE Head(runs).n + RunsLength(Tail(runs))

\* v.length of a string value
Length(v) == RunsLength(v.runs)

RECURSIVE TrimStartRuns(_)
TrimStartRuns(runs) ==
    IF runs = <<>> THEN <<>>
    ELSE IF Head(runs).c \in WhiteSpace THEN TrimStartRuns(Tail(runs))
    ELSE runs

RECURSIVE TrimEndRuns(_)
TrimEndRuns(runs) ==
    IF runs = <<>> THEN <<>>
    ELSE IF runs[Len(runs)].c \in WhiteSpace
         THEN TrimEndRuns(SubSeq(runs, 1, Len(runs) - 1))
    ELSE runs

\* v.trim()
Trim(v) == Str(TrimEndRuns(TrimStartRuns(v.runs)))

\* !v : undefined, the empty string and 0 are falsy
Not(v) ==
    \/ v.t = "undefined"
    \/ v.t = "string" /\ v.runs = <<>>
    \/ v.t = "number" /\ v.num = 0

\* parseInt(v) of an integer number value is that number
ParseInt(v) == v.num

\* x || d
OrElse(v, d) == IF Not(v) THEN d ELSE v

\* The text a column or a Map entry holds.
EmptyString == Str(<<>>)

\* ---------------------------------------------------------- identifiers
\* An identifier is a sequence of one-character strings.

Lower ==
    {"a","b","c","d","e","f","g","h","i","j","k","l","m",
     "n","o","p","q","r","s","t","u","v","w","x","y","z"}

Upper ==
    {"A","B","C","D","E","F","G","H","I","J","K","L","M",
     "N","O","P","Q","R","S","T","U","V","W","X","Y","Z"}

Digit == {"0","1","2","3","4","5","6","7","8","9"}

\* nanoid's default alphabet: A-Za-z0-9_-
UrlAlphabet == Lower \cup Upper \cup Digit \cup {"_", "-"}

\* The identifiers nanoid(size) may return, of those the model draws from.
IdPool ==
    { <<"V","1","s","t","a","r","_","x">>,
      <<"k","-","9","Q","z","0","m","E">> }

Nanoid(size) ==
    { id \in IdPool : Len(id) = size /\ \A i \in 1..Len(id) : id[i] \in UrlAlphabet }

NoId == <<>>

\* ------------------------------------------------- the greetings table
\* A table is a function from the identifiers (its primary key) that are
\* present to their rows.

NoError == "none"

\* A row as the handlers write and read it.  supabase-setup.sql declares id,
\* sender, receiver, message and created_at; day_index is the column that
\* create.js inserts and get.js selects.  On a table made by the script
\* alone every insert and select fails, which is a fault below.
TableRow(sender, receiver, message, day_index, created_at) ==
    [sender |-> sender, receiver |-> receiver, message |-> message,
     day_index |-> day_index, created_at |-> created_at]

SENDER_CHECK == 100

RECEIVER_CHECK == 100

MESSAGE_CHECK == 500

\* CHECK (char_length(col) <= max) on a NOT NULL text column
ColumnError(v, max) ==
    IF v.t = "undefined" THEN "23502"
    ELSE IF Length(v) > max THEN "23514"
    ELSE NoError

\* TableInsert on a table without its primary key: the row replaces the one
\* the identifier has
TableInsertNoKey(table, id, values, fault, now) ==
    LET err == IF fault THEN "unavailable" ELSE NoError
    IN  [error |-> err,
         table |->
            IF err # NoError THEN table
            ELSE [k \in DOMAIN table \cup {id} |->
                    IF k = id
                    THEN TableRow(values.sender, values.receiver, values.message,
                                  values.day_index, now)
                    ELSE table[k]]]

\* supabase.from('greetings').insert(values): the error, and the table after.
\* fault: the call fails outside the statement (network, schema cache,
\* policy); the statement itself fails on the primary key and the checks.
\* created_at is the column default now().
TableInsert(table, id, values, fault, now) ==
    LET err ==
            IF fault THEN "unavailable"
            ELSE IF id \in DOMAIN table THEN "23505"
            ELSE IF ColumnError(values.sender, SENDER_CHECK) # NoError
                 THEN ColumnError(values.sender, SENDER_CHECK)
            ELSE IF ColumnError(values.receiver, RECEIVER_CHECK) # NoError
                 THEN ColumnError(values.receiver, RECEIVER_CHECK)
            ELSE ColumnError(values.message, MESSAGE_CHECK)
    IN  [error |-> err,
         table |->
            IF err # NoError THEN table
            ELSE [k \in DOMAIN table \cup {id} |->
                    IF k = id
                    THEN TableRow(values.sender, values.receiver, values.message,
                                  values.day_index, now)
                    ELSE table[k]]]

\* .select('sender, receiver, message, day_index, created_at').eq('id', id)
\* .single(): the row, or the error (PGRST116 when no row matches).
TableSelectSingle(table, id, fault) ==
    IF fault THEN [data |-> <<>>, error |-> "unavailable"]
    ELSE IF id \notin DOMAIN table THEN [data |-> <<>>, error |-> "PGRST116"]
    ELSE [data |-> <<table[id]>>, error |-> NoError]

\* ------------------------------------------------------------ responses

Response(status, error, id, data) ==
    [status |-> status, error |-> error, id |-> id, data |-> data]

\* What a handler did: its response, the table after it, the identifier it
\* generated (NoId when it generated none), its store calls and the error
\* the store returned (NoError when it returned none or was not called).
Outcome(res, table, gen, inserts, selects, dbError) ==
    [res |-> res, table |-> table, gen |-> gen,
     inserts |-> inserts, selects |-> selects, dbError |-> dbError]

\* ------------------------------------------------------- api/create.js

\* MissingRequired testing the sender only
MissingRequiredSenderOnly(body) == Not(body.sender)

\* if (!sender || !receiver)
MissingRequired(body) == Not(body.sender) \/ Not(body.receiver)

NameTooLong(v) == Length(v) > MAX_NAME_LENGTH

\* MessageTooLong with >= for >
MessageTooLongOffByOne(message) ==
    ~Not(message) /\ Length(message) >= MAX_MESSAGE_LENGTH

\* if (message && message.length > MAX_MESSAGE_LENGTH)
MessageTooLong(message) == ~Not(message) /\ Length(message) > MAX_MESSAGE_LENGTH

\* The 400 the validation answers with, or NoError when it passes.
CreateValidation(body) ==
    IF MissingRequired(body) THEN "Missing required fields"
    ELSE IF NameTooLong(body.sender) THEN "Validation error"
    ELSE IF NameTooLong(body.receiver) THEN "Validation error"
    ELSE IF MessageTooLong(body.message) THEN "Validation error"
    ELSE NoError

\* InsertValues storing the receiver as it was sent
InsertValuesReceiverAsSent(body) ==
    [sender |-> Trim(body.sender),
     receiver |-> body.receiver,
     message |-> IF ~Not(body.message) THEN Trim(body.message) ELSE EmptyString,
     day_index |-> IF body.day_index.t # "undefined"
                   THEN ParseInt(body.day_index) ELSE 0]

\* The object handed to insert().
InsertValues(body) ==
    [sender |-> Trim(body.sender),
     receiver |-> Trim(body.receiver),
     message |-> IF ~Not(body.message) THEN Trim(body.message) ELSE EmptyString,
     day_index |-> IF body.day_index.t # "undefined"
                   THEN ParseInt(body.day_index) ELSE 0]

\* CreateRespond without the test of dbError
CreateRespondUnchecked(dbError, id) == Response(201, NoError, id, <<>>)

\* if (dbError) 500 else 201 {success, id, url}
CreateRespond(dbError, id) ==
    IF dbError # NoError THEN Response(500, "Database error", NoId, <<>>)
    ELSE Response(201, NoError, id, <<>>)

\* CreateHandler inserting a second time when the first insert failed
CreateHandlerRetrying(method, body, id, fault, table, now) ==
    IF method # "POST"
    THEN Outcome(Response(405, "Method not allowed", NoId, <<>>), table, NoId, 0, 0, NoError)
    ELSE IF CreateValidation(body) # NoError
    THEN Outcome(Response(400, CreateValidation(body), NoId, <<>>), table, NoId, 0, 0, NoError)
    ELSE LET ins == TableInsert(table, id, InsertValues(body), fault, now)
             again == TableInsert(table, id, InsertValues(body), FALSE, now)
         IN  IF ins.error = NoError
             THEN Outcome(CreateRespond(ins.error, id), ins.table, id, 1, 0, ins.error)
             ELSE Outcome(CreateRespond(again.error, id), again.table, id, 2, 0,
                          again.error)

\* handler(req, res); id is what nanoid(ID_LENGTH) returns if it is called.
CreateHandler(method, body, id, fault, table, now) ==
    IF method # "POST"
    THEN Outcome(Response(405, "Method not allowed", NoId, <<>>), table, NoId, 0, 0, NoError)
    ELSE IF CreateValidation(body) # NoError
    THEN Outcome(Response(400, CreateValidation(body), NoId, <<>>), table, NoId, 0, 0, NoError)
    ELSE LET ins == TableInsert(table, id, InsertValues(body), fault, now)
         IN  Outcome(CreateRespond(ins.error, id), ins.table, id, 1, 0, ins.error)

\* ---------------------------------------------------------- api/get.js

\* IdPattern without its anchors: /[a-zA-Z0-9_-]+/
IdPatternUnanchored(id) ==
    \E i \in 1..Len(id) : id[i] \in Lower \cup Upper \cup Digit \cup {"_", "-"}

\* /^[a-zA-Z0-9_-]+$/.test(id)
IdPattern(id) ==
    /\ Len(id) >= 1
    /\ \A i \in 1..Len(id) : id[i] \in Lower \cup Upper \cup Digit \cup {"_", "-"}

\* GetRespond without the test for PGRST116
GetRespondAnyError(sel) ==
    IF sel.error # NoError THEN Response(500, "Database error", NoId, <<>>)
    ELSE IF sel.data = <<>> THEN Response(404, "Not found", NoId, <<>>)
    ELSE Response(200, NoError, NoId, sel.data)

\* The response to the select's result.
GetRespond(sel) ==
    IF sel.error # NoError
    THEN IF sel.error = "PGRST116"
         THEN Response(404, "Not found", NoId, <<>>)
         ELSE Response(500, "Database error", NoId, <<>>)
    ELSE IF sel.data = <<>> THEN Response(404, "Not found", NoId, <<>>)
    ELSE Response(200, NoError, NoId, sel.data)

\* GetHandler removing the row it has read
GetHandlerConsuming(method, id, fault, table) ==
    IF method # "GET"
    THEN Outcome(Response(405, "Method not allowed", NoId, <<>>), table, NoId, 0, 0, NoError)
    ELSE IF id = NoId
    THEN Outcome(Response(400, "Missing ID", NoId, <<>>), table, NoId, 0, 0, NoError)
    ELSE IF ~IdPattern(id)
    THEN Outcome(Response(400, "Invalid ID", NoId, <<>>), table, NoId, 0, 0, NoError)
    ELSE LET sel == TableSelectSingle(table, id, fault)
         IN  Outcome(GetRespond(sel),
                     [k \in DOMAIN table \ {id} |-> table[k]], NoId, 0, 1, sel.error)

\* handler(req, res); id is req.query.id (NoId when it is missing or empty).
GetHandler(method, id, fault, table) ==
    IF method # "GET"
    THEN Outcome(Response(405, "Method not allowed", NoId, <<>>), table, NoId, 0, 0, NoError)
    ELSE IF id = NoId
    THEN Outcome(Response(400, "Missing ID", NoId, <<>>), table, NoId, 0, 0, NoError)
    ELSE IF ~IdPattern(id)
    THEN Outcome(Response(400, "Invalid ID", NoId, <<>>), table, NoId, 0, 0, NoError)
    ELSE LET sel == TableSelectSingle(table, id, fault)
         IN  Outcome(GetRespond(sel), table, NoId, 0, 1, sel.error)

\* ------------------------------------------------ local-demo-server.js

RECURSIVE SplitLines(_, _)
\* memories.split('\n'): the lines of runs, cur being the line so far
SplitLines(runs, cur) ==
    IF runs = <<>> THEN <<cur>>
    ELSE IF Head(runs).c = "\n"
         THEN <<cur>> \o SplitLines(Tail(runs), <<>>)
    ELSE SplitLines(Tail(runs), Append(cur, Head(runs)))

NonBlank(line) == TrimEndRuns(TrimStartRuns(line)) # <<>>

\* memories.split('\n').filter(line => line.trim() !== ''), [] for no string
MemoriesArray(memories) ==
    IF ~Not(memories) /\ memories.t = "string"
    THEN SelectSeq(SplitLines(memories.runs, <<>>), NonBlank)
    ELSE <<>>

\* The object db.set stores.
DemoEntry(body, now) ==
    [sender |-> body.sender,
     receiver |-> body.receiver,
     day_index |-> ParseInt(OrElse(body.day_index, Num(0))),
     subtitle |-> OrElse(body.subtitle, EmptyString),
     quote |-> OrElse(body.quote, EmptyString),
     day_message |-> OrElse(body.day_message, EmptyString),
     memories |-> MemoriesArray(body.memories),
     created_at |-> now]

\* db.set(id, entry)
MapSet(map, id, entry) ==
    [k \in DOMAIN map \cup {id} |-> IF k = id THEN entry ELSE map[k]]

\* app.post('/api/create'); id is what nanoid(8) returns if it is called.
DemoCreateHandler(body, id, map, now) ==
    IF Not(body.sender) \/ Not(body.receiver)
    THEN Outcome(Response(400, "Missing required fields", NoId, <<>>), map, NoId, 0, 0, NoError)
    ELSE Outcome(Response(201, NoError, id, <<>>),
                 MapSet(map, id, DemoEntry(body, now)), id, 1, 0, NoError)

\* app.get('/api/get')
DemoGetHandler(id, map) ==
    IF id = NoId
    THEN Outcome(Response(400, "Missing ID", NoId, <<>>), map, NoId, 0, 0, NoError)
    ELSE IF id \notin DOMAIN map
    THEN Outcome(Response(404, "Not found", NoId, <<>>), map, NoId, 0, 1, NoError)
    ELSE Outcome(Response(200, NoError, NoId, <<map[id]>>), map, NoId, 0, 1, NoError)

\* -------------------------------------------------------------- requests
\* The requests the model sends: one plain body, and the bodies that differ
\* from it in one field (or in all the optional ones, or in every field).

Text(c, n) == Str(<<Run(c, n)>>)

PlainBody ==
    [sender |-> Text("s", 3), receiver |-> Text("r", 4), message |-> Undefined,
     day_index |-> Undefined, subtitle |-> Undefined, quote |-> Undefined,
     day_message |-> Undefined, memories |-> Undefined]

EmptyBody ==
    [sender |-> Undefined, receiver |-> Undefined, message |-> Undefined,
     day_index |-> Undefined, subtitle |-> Undefined, quote |-> Undefined,
     day_message |-> Undefined, memories |-> Undefined]

NameSamples ==
    { Undefined,
      EmptyString,
      Text(" ", 2),
      Str(<<Run(" ", 1), Run("a", 3), Run("\t", 1)>>),
      Text("n", MAX_NAME_LENGTH),
      Text("n", MAX_NAME_LENGTH + 1) }

MessageSamples ==
    { EmptyString,
      Str(<<Run("\n", 1), Run("h", 2), Run(" ", 1), Run("i", 1), Run(" ", 2)>>),
      Text("m", MAX_MESSAGE_LENGTH),
      Text("m", MAX_MESSAGE_LENGTH + 1) }

RichBody ==
    [PlainBody EXCEPT
        !.day_index = Num(3),
        !.subtitle = Text("t", 5),
        !.quote = Text("q", 6),
        !.day_message = Text("d", 7),
        !.memories = Str(<<Run("x", 2), Run("\n", 2), Run(" ", 1), Run("\n", 1),
                           Run("y", 1), Run(" ", 1), Run("z", 1)>>)]

Bodies ==
    {PlainBody, EmptyBody, RichBody, [PlainBody EXCEPT !.day_index = Num(2)]}
    \cup {[PlainBody EXCEPT !.sender = n] : n \in NameSamples}
    \cup {[PlainBody EXCEPT !.receiver = n] : n \in NameSamples}
    \cup {[PlainBody EXCEPT !.message = m] : m \in MessageSamples}

CreateRequests ==
    {[method |-> "POST", body |-> b] : b \in Bodies}
    \cup {[method |-> "GET", body |-> PlainBody]}

\* req.query.id: missing, with a space, with a slash, well formed and never
\* generated (with and without an underscore), and the generated ones.
QueryIds ==
    { NoId,
      <<"a", "b", " ", "c">>,
      <<"a", "/", "b">>,
      <<"n", "o", "_", "1">>,
      <<"n", "o", "-", "2">> }
    \cup IdPool

GetRequests ==
    {[method |-> "GET", id |-> i] : i \in QueryIds}
    \cup {[method |-> "POST", id |-> i] : i \in Nanoid(ID_LENGTH)}

\* ------------------------------------------------- js/dynamic-loader.js
\* The page: the create form (a modal with the form, its fields, its submit
\* and preview buttons and the result box), the preview notice, and the
\* regions that show the greeting.  A control can be pressed while it is
\* displayed.

\* obj.name of an object that may lack the property
Field(obj, name) == IF name \in DOMAIN obj THEN obj[name] ELSE Undefined

\* Characters encodeURIComponent leaves as they are
Unreserved ==
    Lower \cup Upper \cup Digit \cup {"-", "_", ".", "!", "~", "*", "'", "(", ")"}

\* The escape of a character that is not left as it is (of those in use)
PercentEscape(c) ==
    IF c = " " THEN <<"%", "2", "0">>
    ELSE IF c = "/" THEN <<"%", "2", "F">>
    ELSE <<"%", "3", "F">>

RECURSIVE EncodeURIComponent(_)
EncodeURIComponent(id) ==
    IF id = <<>> THEN <<>>
    ELSE (IF Head(id) \in Unreserved THEN <<Head(id)>> ELSE PercentEscape(Head(id)))
         \o EncodeURIComponent(Tail(id))

RECURSIVE DecodeQuery(_)
\* req.query.id: the server's decoding of the query string
DecodeQuery(q) ==
    IF q = <<>> THEN <<>>
    ELSE IF Head(q) = "%" /\ Len(q) >= 3
    THEN (IF SubSeq(q, 1, 3) = <<"%", "2", "0">> THEN <<" ">>
          ELSE IF SubSeq(q, 1, 3) = <<"%", "2", "F">> THEN <<"/">>
          ELSE <<"?">>)
         \o DecodeQuery(SubSeq(q, 4, Len(q)))
    ELSE <<Head(q)>> \o DecodeQuery(Tail(q))

\* The text a region shows before any greeting is put into it, and after the
\* day theme of index day is put into it.
DayDefault(day) == Text("#", day + 1)

PageDefault == DayDefault(0)

\* The document as it is served.
Document(formShown) ==
    [formShown |-> formShown, fieldsHidden |-> FALSE, submitDisabled |-> FALSE,
     notice |-> FALSE, result |-> NoId,
     receiver |-> PageDefault, sender |-> PageDefault, subtitle |-> PageDefault,
     quote |-> PageDefault, message |-> PageDefault, csName |-> PageDefault,
     metaReceiver |-> PageDefault, metaSender |-> PageDefault,
     configRecipient |-> PageDefault, configSender |-> PageDefault]

\* showCreateForm without its effect
ShowCreateFormNothing(d) == d

ShowCreateForm(d) == [d EXCEPT !.formShown = TRUE]

\* hideCreateForm without its effect
HideCreateFormNothing(d) == d

HideCreateForm(d) == [d EXCEPT !.formShown = FALSE]

\* safeSetText(selector, text) when text is truthy
SetIfPresent(d, region, text) ==
    IF ~Not(text) THEN [d EXCEPT ![region] = text] ELSE d

\* populateGreeting(data); hasConfig: typeof config !== 'undefined'
PopulateGreeting(d, data, hasConfig) ==
    LET d1 == SetIfPresent(d, "receiver", Field(data, "receiver"))
        d2 == SetIfPresent(d1, "sender", Field(data, "sender"))
        d3 == SetIfPresent(d2, "subtitle", Field(data, "subtitle"))
        d4 == SetIfPresent(d3, "quote", Field(data, "quote"))
        d5 == SetIfPresent(d4, "message", Field(data, "day_message"))
        d6 == SetIfPresent(d5, "csName", Field(data, "receiver"))
        d7 == [d6 EXCEPT !.metaReceiver = Field(data, "receiver"),
                         !.metaSender = Field(data, "sender")]
    IN  IF hasConfig
        THEN [d7 EXCEPT !.configRecipient = Field(data, "receiver"),
                        !.configSender = Field(data, "sender")]
        ELSE d7

\* config.days[index] is defined
HasDayConfig(index) == index \in 0..(NumDays - 1)

\* populateDayContent(config.days[day]) of the page's other script: it puts
\* the day's default content into the regions ("resets to defaults").
PopulateDayContent(d, day) ==
    [d EXCEPT !.receiver = DayDefault(day), !.sender = DayDefault(day),
              !.subtitle = DayDefault(day), !.quote = DayDefault(day),
              !.message = DayDefault(day)]

\* The day-theme step of init and of handlePreview; hasScript: config and
\* populateDayContent are defined.
DayTheme(d, day, hasScript) ==
    IF hasScript /\ HasDayConfig(day) THEN PopulateDayContent(d, day) ELSE d

\* init after fetchGreeting returned data
InitPopulate(d, data, hasScript) ==
    DayTheme(PopulateGreeting(d, data, hasScript), data.day_index, hasScript)

\* collectFormData(); inputs are the values of #senderName, #receiverName
\* and #daySelect
CollectFormData(inputs) ==
    [sender |-> Trim(inputs.sender),
     receiver |-> Trim(inputs.receiver),
     day_index |-> Num(ParseInt(OrElse(inputs.day, Num(0))))]

\* if (!data.sender || !data.receiver)
FormIncomplete(data) == Not(data.sender) \/ Not(data.receiver)

\* handlePreview once the data is complete
PreviewPopulate(d, data, hasScript) ==
    LET themed == DayTheme(d, data.day_index.num, hasScript)
        shown == PopulateGreeting(themed,
                     [sender |-> data.sender, receiver |-> data.receiver], hasScript)
    IN  [HideCreateForm(shown) EXCEPT !.notice = TRUE]

\* The body JSON.stringify(greetingData) carries to the server
PostedBody(data) ==
    [EmptyBody EXCEPT !.sender = data.sender, !.receiver = data.receiver,
                      !.day_index = data.day_index]

\* handleFormSubmit up to its await: the document and the requests in flight
SubmitStart(d, data, flight) ==
    IF FormIncomplete(data) THEN [dom |-> d, inflight |-> flight]
    ELSE [dom |-> [d EXCEPT !.submitDisabled = TRUE],
          inflight |-> Append(flight, PostedBody(data))]

\* handleFormSubmit after its await; res: the response, <<>> when fetch threw
SubmitFinish(d, res) ==
    LET shown == IF res # <<>> /\ res[1].status \in 200..299
                 THEN [d EXCEPT !.result = res[1].id, !.fieldsHidden = TRUE]
                 ELSE d
    IN  [shown EXCEPT !.submitDisabled = FALSE]

\* What the form's fields may hold: blank, a blank receiver, and padded names
\* with the last day that has a theme and the first that has none.
FormInputs ==
    {[sender |-> EmptyString, receiver |-> EmptyString, day |-> Undefined],
     [sender |-> Text("a", 3), receiver |-> Text(" ", 2), day |-> Num(1)]}
    \cup {[sender |-> Str(<<Run(" ", 1), Run("a", 3)>>), receiver |-> Text("b", 3),
           day |-> Num(k)] : k \in {NumDays - 1, NumDays}}

\* The greetings a page may be opened for: made by a create of the form's data.
StoredBody(k) ==
    PostedBody([sender |-> Text("v", 3), receiver |-> Text("w", 4), day_index |-> Num(k)])

StoredBodies == {StoredBody(k) : k \in 0..NumDays}

StoredId == CHOOSE id \in Nanoid(ID_LENGTH) : TRUE

\* window.location: its protocol and its id parameter
PageUrls ==
    {[protocol |-> pr, id |-> i] :
        pr \in {"http:", "file:"},
        i \in {NoId, StoredId, <<"n", "o", "-", "2">>, <<"a", "/", "b">>}}

\* ----------------------------------------------------------------- state

VARIABLES
    backend,    \* "supabase": api/create.js and api/get.js; "demo": the demo server
    greetings,  \* the greetings table
    db,         \* the demo server's Map
    clock,      \* now(), new Date(): the create requests handled so far
    last,       \* the request handled last and its response
    issued,     \* the client's record: the body and identifier of every 201
    env,        \* the page's URL and whether its other script is loaded
    pc,         \* where init is, and what its fetch returned
    dom,        \* the document
    inputs,     \* the values of the form's fields
    inflight    \* the bodies of the create requests awaiting their response

front == <<env, pc, dom, inputs, inflight>>

vars == <<backend, greetings, db, clock, last, issued, env, pc, dom, inputs, inflight>>

InitAt(at, fetched, data) == [at |-> at, fetched |-> fetched, data |-> data]

NoInputs == [sender |-> EmptyString, receiver |-> EmptyString, day |-> Undefined]

\* No page is open.
NoPage ==
    /\ env = [protocol |-> "none", id |-> NoId, hasScript |-> FALSE]
    /\ pc = InitAt("off", "none", <<>>)
    /\ dom = Document(FALSE)
    /\ inputs = NoInputs
    /\ inflight = <<>>

EmptyStore == [k \in {} |-> EmptyBody]

Exchange(op, method, body, id, fault, out) ==
    [op |-> op, method |-> method, body |-> body, id |-> id,
     fault |-> fault /\ out.inserts + out.selects > 0,
     gen |-> out.gen, res |-> out.res,
     inserts |-> out.inserts, selects |-> out.selects, dbError |-> out.dbError]

NoExchange ==
    Exchange("none", "", EmptyBody, NoId, FALSE,
             Outcome(Response(0, NoError, NoId, <<>>), EmptyStore, NoId, 0, 0, NoError))

Issue(log, body, res) ==
    IF res.status = 201 THEN Append(log, [id |-> res.id, body |-> body]) ELSE log

Init ==
    /\ backend \in {"supabase", "demo"}
    /\ greetings = EmptyStore
    /\ db = EmptyStore
    /\ clock = 0
    /\ last = NoExchange
    /\ issued = <<>>
    /\ NoPage

\* POST /api/create on the table-backed handler
Create(req, id, fault) ==
    /\ backend = "supabase"
    /\ clock < MaxCreates
    /\ LET out == CreateHandler(req.method, req.body, id, fault, greetings, clock)
       IN  /\ greetings' = out.table
           /\ last' = Exchange("create", req.method, req.body, NoId, fault, out)
           /\ issued' = Issue(issued, req.body, out.res)
    /\ clock' = clock + 1
    /\ UNCHANGED <<backend, db>>
    /\ UNCHANGED front

\* GET /api/get on the table-backed handler
Get(req, fault) ==
    /\ backend = "supabase"
    /\ LET out == GetHandler(req.method, req.id, fault, greetings)
       IN  /\ greetings' = out.table
           /\ last' = Exchange("get", req.method, EmptyBody, req.id, fault, out)
    /\ UNCHANGED <<backend, db, clock, issued>>
    /\ UNCHANGED front

\* POST /api/create on the demo server
DemoCreate(body, id) ==
    /\ backend = "demo"
    /\ clock < MaxCreates
    /\ LET out == DemoCreateHandler(body, id, db, clock)
       IN  /\ db' = out.table
           /\ last' = Exchange("create", "POST", body, NoId, FALSE, out)
           /\ issued' = Issue(issued, body, out.res)
    /\ clock' = clock + 1
    /\ UNCHANGED <<backend, greetings>>
    /\ UNCHANGED front

\* GET /api/get on the demo server
DemoGet(id) ==
    /\ backend = "demo"
    /\ LET out == DemoGetHandler(id, db)
       IN  /\ db' = out.table
           /\ last' = Exchange("get", "GET", EmptyBody, id, FALSE, out)
    /\ UNCHANGED <<backend, greetings, clock, issued>>
    /\ UNCHANGED front

Next ==
    \/ \E req \in CreateRequests, id \in Nanoid(ID_LENGTH), fault \in BOOLEAN :
          Create(req, id, fault)
    \/ \E req \in GetRequests, fault \in BOOLEAN : Get(req, fault)
    \/ \E body \in Bodies, id \in Nanoid(DEMO_ID_LENGTH) : DemoCreate(body, id)
    \/ \E id \in QueryIds : DemoGet(id)

Spec == Init /\ [][Next]_vars

\* ------------------------------------------------------- the page open
\* A page of js/dynamic-loader.js against one of the two servers, whose
\* store holds one greeting made earlier.

\* The server's answer to GET /api/get?id=q
ServeGet(q, fault) ==
    IF backend = "supabase"
    THEN GetHandler("GET", DecodeQuery(q), fault, greetings)
    ELSE DemoGetHandler(DecodeQuery(q), db)

\* The server's answer to POST /api/create with body
ServeCreate(body, id, fault) ==
    IF backend = "supabase"
    THEN CreateHandler("POST", body, id, fault, greetings, clock)
    ELSE DemoCreateHandler(body, id, db, clock)

Serve(out) ==
    /\ greetings' = IF backend = "supabase" THEN out.table ELSE greetings
    /\ db' = IF backend = "supabase" THEN db ELSE out.table

FrontInit ==
    /\ backend \in {"supabase", "demo"}
    /\ \E url \in PageUrls, hasScript \in BOOLEAN :
          env = [protocol |-> url.protocol, id |-> url.id, hasScript |-> hasScript]
    /\ \E b \in IF env.protocol = "http:" /\ env.id = StoredId
                THEN StoredBodies ELSE {StoredBody(0)} :
          /\ greetings = IF backend = "supabase"
                         THEN CreateHandler("POST", b, StoredId, FALSE, EmptyStore, 0).table
                         ELSE EmptyStore
          /\ db = IF backend = "demo"
                  THEN DemoCreateHandler(b, StoredId, EmptyStore, 0).table
                  ELSE EmptyStore
    /\ clock = 1
    /\ last = NoExchange
    /\ issued = <<>>
    /\ pc = InitAt("loading", "none", <<>>)
    /\ \E shown \in BOOLEAN : dom = Document(shown)
    /\ inputs = NoInputs
    /\ inflight = <<>>

\* The listeners are attached.
Loaded == pc.at \notin {"off", "loading"}

\* The form's controls can be pressed.
FormUsable == Loaded /\ dom.formShown /\ ~dom.fieldsHidden

\* A further create request is within the bound.
MaySend == clock + Len(inflight) <= MaxCreates

\* DOMContentLoaded: the listeners are attached and init runs to its await,
\* to its timer or to its return
Load ==
    /\ pc.at = "loading"
    /\ IF env.protocol = "file:"
       THEN /\ pc' = InitAt("done", "none", <<>>)
            /\ dom' = dom
       ELSE IF env.id # NoId
       THEN /\ pc' = InitAt("fetching", "none", <<>>)
            /\ dom' = HideCreateForm(dom)
       ELSE /\ pc' = InitAt("timer", "none", <<>>)
            /\ dom' = dom
    /\ UNCHANGED <<backend, greetings, db, clock, last, issued, env, inputs, inflight>>

\* setTimeout(() => showCreateForm(), 100) fires
TimerFires ==
    /\ pc.at = "timer"
    /\ pc' = InitAt("done", "none", <<>>)
    /\ dom' = ShowCreateForm(dom)
    /\ UNCHANGED <<backend, greetings, db, clock, last, issued, env, inputs, inflight>>

\* fetchGreeting returns and init goes on to its end; net: the request
\* reached the server and its response the page
FetchResponds(net, fault) ==
    /\ pc.at = "fetching"
    /\ LET out == ServeGet(EncodeURIComponent(env.id), fault)
           data == IF net /\ out.res.status \in 200..299 THEN out.res.data ELSE <<>>
       IN  /\ IF net THEN Serve(out) ELSE UNCHANGED <<greetings, db>>
           /\ pc' = InitAt("done", IF data # <<>> THEN "ok" ELSE "failed", data)
           /\ dom' = IF data # <<>>
                     THEN InitPopulate(dom, data[1], env.hasScript)
                     ELSE dom
    /\ UNCHANGED <<backend, clock, last, issued, env, inputs, inflight>>

\* The user edits the fields of the form.
TypeFields(v) ==
    /\ FormUsable
    /\ inputs' = v
    /\ UNCHANGED <<backend, greetings, db, clock, last, issued, env, pc, dom, inflight>>

\* The user presses the submit button: handleFormSubmit to its await
SubmitClick ==
    /\ FormUsable /\ ~dom.submitDisabled
    /\ LET data == CollectFormData(inputs)
           next == SubmitStart(dom, data, inflight)
       IN  /\ FormIncomplete(data) \/ MaySend
           /\ dom' = next.dom
           /\ inflight' = next.inflight
    /\ UNCHANGED <<backend, greetings, db, clock, last, issued, env, pc, inputs>>

\* The user presses Preview: handlePreview
PreviewClick ==
    /\ FormUsable
    /\ LET data == CollectFormData(inputs)
       IN  dom' = IF FormIncomplete(data) THEN dom
                  ELSE PreviewPopulate(dom, data, env.hasScript)
    /\ UNCHANGED <<backend, greetings, db, clock, last, issued, env, pc, inputs, inflight>>

\* The user presses Edit in the preview notice.
EditClick ==
    /\ Loaded /\ dom.notice
    /\ dom' = ShowCreateForm([dom EXCEPT !.notice = FALSE])
    /\ UNCHANGED <<backend, greetings, db, clock, last, issued, env, pc, inputs, inflight>>

\* The user presses Create Link in the preview notice: the notice goes, a
\* submit event is dispatched to the form, the form is shown
ConfirmClick ==
    /\ Loaded /\ dom.notice
    /\ LET data == CollectFormData(inputs)
           next == SubmitStart([dom EXCEPT !.notice = FALSE], data, inflight)
       IN  /\ FormIncomplete(data) \/ MaySend
           /\ dom' = ShowCreateForm(next.dom)
           /\ inflight' = next.inflight
    /\ UNCHANGED <<backend, greetings, db, clock, last, issued, env, pc, inputs>>

\* The create request i is answered (or fails to) and handleFormSubmit goes
\* on to its end.
CreateResponds(i, net, id, fault) ==
    /\ i \in 1..Len(inflight)
    /\ LET out == ServeCreate(inflight[i], id, fault)
       IN  /\ IF net THEN Serve(out) /\ clock' = clock + 1
                     ELSE UNCHANGED <<greetings, db, clock>>
           /\ dom' = SubmitFinish(dom, IF net THEN <<out.res>> ELSE <<>>)
    /\ inflight' = SubSeq(inflight, 1, i - 1) \o SubSeq(inflight, i + 1, Len(inflight))
    /\ UNCHANGED <<backend, last, issued, env, pc, inputs>>

FrontNext ==
    \/ Load
    \/ TimerFires
    \/ \E net \in BOOLEAN, fault \in BOOLEAN : FetchResponds(net, fault)
    \/ \E v \in FormInputs : TypeFields(v)
    \/ SubmitClick
    \/ PreviewClick
    \/ EditClick
    \/ ConfirmClick
    \/ \E i \in 1..Len(inflight), net \in BOOLEAN, id \in Nanoid(ID_LENGTH),
          fault \in BOOLEAN : CreateResponds(i, net, id, fault)

\* The page's own steps are taken: the load, the timer, the fetch's return.
FrontFairness ==
    /\ WF_vars(Load)
    /\ WF_vars(TimerFires)
    /\ WF_vars(\E net \in BOOLEAN, fault \in BOOLEAN : FetchResponds(net, fault))

FrontSpec == FrontInit /\ [][FrontNext]_vars /\ FrontFairness

\* ================================================================ claims

OnTable == backend = "supabase"

IsCreate(x) == x.op = "create" /\ x.method = "POST"

IsGet(x) == x.op = "get" /\ x.method = "GET"

\* The entries of the client's record for identifier id
IssuedFor(id) == {i \in 1..Len(issued) : issued[i].id = id}

\* A message the request left out reads as the empty string.
MessageText(v) == IF v.t = "undefined" THEN EmptyString ELSE v

\* ---------------------------------------------------------------- C1

\* Names that are not empty once trimmed.
NamesPresent(body) ==
    Trim(body.sender) # EmptyString /\ Trim(body.receiver) # EmptyString

\* C1 as stated: a get answered 200 for an identifier a create returned
\* carries exactly the sender, receiver and message sent to that create
\* (for names that are not blank).
C1_RoundTripAsSent ==
    (OnTable /\ IsGet(last) /\ last.res.status = 200) =>
        \A i \in IssuedFor(last.id) :
            NamesPresent(issued[i].body) =>
            /\ last.res.data[1].sender = issued[i].body.sender
            /\ last.res.data[1].receiver = issued[i].body.receiver
            /\ last.res.data[1].message = MessageText(issued[i].body.message)

\* C1 amended: a get answered 200 for an identifier a create returned carries
\* the sender, receiver and message sent to that create with the white space
\* around each removed (the empty string for a message left out).
C1_RoundTripTrimmed ==
    (OnTable /\ IsGet(last) /\ last.res.status = 200) =>
        \A i \in IssuedFor(last.id) :
            /\ last.res.data[1].sender = Trim(issued[i].body.sender)
            /\ last.res.data[1].receiver = Trim(issued[i].body.receiver)
            /\ last.res.data[1].message = Trim(MessageText(issued[i].body.message))

\* A get returned a greeting whose receiver was sent with white space around it.
C1_Witness ==
    /\ OnTable /\ IsGet(last) /\ last.res.status = 200
    /\ \E i \in IssuedFor(last.id) :
          /\ issued[i].body.receiver # Trim(issued[i].body.receiver)
          /\ last.res.data[1].receiver = Trim(issued[i].body.receiver)

\* ---------------------------------------------------------------- C2

\* C2 as stated: a get of an identifier a create returned answers 200; a
\* create whose insert failed answers 500 without an identifier and no row
\* exists under the identifier it generated.
C2_AsStated ==
    OnTable =>
        /\ (IsGet(last) /\ IssuedFor(last.id) # {}) => last.res.status = 200
        /\ (IsCreate(last) /\ last.dbError # NoError) =>
              /\ last.res.status = 500
              /\ last.res.id = NoId
              /\ last.gen \notin DOMAIN greetings

\* C2 amended: a create answers 201 only when its insert added the row; a
\* later get of the returned identifier answers 200, or 500 when the lookup
\* itself fails, and never 404; a create whose insert failed answers 500
\* without an identifier and leaves the table as it was (the generated
\* identifier may be one a row already has).
C2_CreatedOnlyWhenInserted ==
    [][OnTable =>
        /\ (IsCreate(last') /\ last'.res.status = 201) =>
              /\ last'.dbError = NoError
              /\ last'.res.id = last'.gen
              /\ last'.gen \notin DOMAIN greetings
              /\ last'.gen \in DOMAIN greetings'
        /\ (IsGet(last') /\ IssuedFor(last'.id) # {}) =>
              /\ last'.res.status \in {200, 500}
              /\ last'.res.status = 500 <=> last'.fault
        /\ (IsCreate(last') /\ last'.dbError # NoError) =>
              /\ last'.res.status = 500
              /\ last'.res.id = NoId
              /\ greetings' = greetings]_vars

\* A create's insert failed on an identifier that was already taken.
C2_Witness ==
    /\ OnTable /\ IsCreate(last) /\ last.dbError = "23505"
    /\ last.res.status = 500 /\ last.gen \in DOMAIN greetings

\* ---------------------------------------------------------------- C3

Stores == <<greetings, db>>

\* C3: a create whose sender or receiver is empty or absent is answered 400
\* and leaves the store as it was, on both back ends.
C3_MissingNameRejected ==
    [][(IsCreate(last') /\ (Not(last'.body.sender) \/ Not(last'.body.receiver))) =>
          /\ last'.res.status = 400
          /\ last'.inserts = 0
          /\ Stores' = Stores]_vars

\* A create with a sender and an empty receiver was answered 400.
C3_Witness ==
    /\ IsCreate(last) /\ last.res.status = 400
    /\ ~Not(last.body.sender) /\ last.body.receiver = EmptyString

\* ---------------------------------------------------------------- C4

\* C4: every row of the table has a sender and a receiver that are not
\* empty once trimmed.
C4_StoredNamesNonEmpty ==
    \A id \in DOMAIN greetings :
        /\ Trim(greetings[id].sender) # EmptyString
        /\ Trim(greetings[id].receiver) # EmptyString

\* ---------------------------------------------------------------- C5

ValidName(v) == ~Not(v) /\ Length(v) <= MAX_NAME_LENGTH

\* The store is working for the create handled last: the call did not fail
\* outside the statement and the identifier generated was free.
WorkingStore(x, table) == ~x.fault /\ x.gen \notin DOMAIN table

\* C5: with a valid sender and receiver, a create whose message has more than
\* 500 characters is answered 400 and stores nothing; with a working store, a
\* create whose message has exactly 500 characters is answered 201 and its row
\* is stored.
C5_MessageBoundary ==
    [][(OnTable /\ IsCreate(last')
          /\ ValidName(last'.body.sender) /\ ValidName(last'.body.receiver)
          /\ last'.body.message.t = "string") =>
          /\ Length(last'.body.message) >= 501 =>
                /\ last'.res.status = 400
                /\ last'.inserts = 0
                /\ greetings' = greetings
          /\ (Length(last'.body.message) = 500 /\ WorkingStore(last', greetings)) =>
                /\ last'.res.status = 201
                /\ last'.res.id \in DOMAIN greetings'
                /\ Length(greetings'[last'.res.id].message) = 500]_vars

\* A create with a message of exactly 500 characters was answered 201.
C5_Witness ==
    /\ OnTable /\ IsCreate(last) /\ last.res.status = 201
    /\ Length(last.body.message) = 500
    /\ Length(greetings[last.res.id].message) = 500

\* ---------------------------------------------------------------- C6

\* The store the running back end keeps, and whether id is well formed for it.
Store == IF OnTable THEN greetings ELSE db

WellFormed(id) == IF OnTable THEN IdPattern(id) ELSE id # NoId

\* C6 as stated: a get of a well-formed identifier nothing was created under
\* is answered 404; a get of an identifier with a greeting is answered 200
\* with the stored fields.
C6_AsStated ==
    IsGet(last) =>
        /\ (WellFormed(last.id) /\ last.id \notin DOMAIN Store) =>
              last.res.status = 404
        /\ last.id \in DOMAIN Store =>
              /\ last.res.status = 200
              /\ last.res.data = <<Store[last.id]>>

\* C6 amended: unless the store lookup itself fails, which is answered 500, a
\* get of a well-formed identifier nothing was created under is answered 404,
\* and a get of an identifier with a greeting is answered 200 with the stored
\* fields.
C6_NotFoundOrStored ==
    IsGet(last) =>
        /\ (WellFormed(last.id) /\ last.id \notin DOMAIN Store /\ ~last.fault) =>
              /\ last.res.status = 404
              /\ last.res.data = <<>>
        /\ (last.id \in DOMAIN Store /\ ~last.fault) =>
              /\ last.res.status = 200
              /\ last.res.data = <<Store[last.id]>>
        /\ last.fault => last.res.status = 500

\* The table-backed get answered 404 for a well-formed identifier with no row.
C6_Witness ==
    /\ OnTable /\ IsGet(last) /\ IdPattern(last.id)
    /\ last.id \notin DOMAIN greetings /\ greetings # EmptyStore
    /\ last.res.status = 404 /\ last.dbError = "PGRST116"

\* ---------------------------------------------------------------- C7

AlphaNumeric == Lower \cup Upper \cup Digit

C8_DistinctIdentifiers ==
    OnTable =>
        \A i, j \in 1..Len(issued) : i # j => issued[i].id # issued[j].id

\* Two creates were answered 201.
C8_Witness == OnTable /\ Len(issued) >= 2

\* ---------------------------------------------------------------- C9

Kept(old, new) == \A id \in DOMAIN old : id \in DOMAIN new /\ new[id] = old[id]

\* C9: a stored greeting is never changed or removed, in the table and in the
\* demo server's Map.
C9_NeverUpdatedOrDeleted == [][Kept(greetings, greetings') /\ Kept(db, db')]_vars

\* --------------------------------------------------------------- C10

SameGet(x, y) == x.op = "get" /\ y.op = "get" /\ x.id = y.id /\ x.method = y.method

\* C10 as stated: a get leaves the store as it was, and a get that follows a
\* get of the same identifier returns the same status and fields.
C10_AsStated ==
    [][last'.op = "get" =>
          /\ Stores' = Stores
          /\ SameGet(last, last') => last'.res = last.res]_vars

\* C10 amended: a get leaves the store as it was, and a get that follows a get
\* of the same identifier returns the same status and fields unless the store
\* lookup failed for exactly one of the two.
C10_ReadOnlyIdempotent ==
    [][last'.op = "get" =>
          /\ Stores' = Stores
          /\ (SameGet(last, last') /\ last.fault = last'.fault) =>
                last'.res = last.res]_vars

\* A get answered 200 with a greeting of a store that holds two.
C10_Witness ==
    /\ IsGet(last) /\ last.res.status = 200
    /\ Cardinality(DOMAIN Store) = 2

\* --------------------------------------------------------------- C11

\* The body passes the validation of the create handler.
PassesValidation(body) ==
    /\ ValidName(body.sender) /\ ValidName(body.receiver)
    /\ Not(body.message) \/ Length(body.message) <= MAX_MESSAGE_LENGTH

\* C11: no request of the table-backed handlers makes more than one store
\* call: a create makes one insert when it is a POST that passes validation
\* and none when it is answered 400 or 405, and never a select; a get makes
\* at most one select, none when it is answered 400 or 405, and never an
\* insert.
C11_OneStoreOperation ==
    OnTable =>
        /\ last.inserts + last.selects <= 1
        /\ last.op = "create" =>
              /\ last.selects = 0
              /\ (last.method = "POST" /\ PassesValidation(last.body)) =>
                    last.inserts = 1
              /\ last.res.status \in {400, 405} => last.inserts = 0
        /\ last.op = "get" =>
              /\ last.inserts = 0
              /\ last.res.status \in {400, 405} => last.selects = 0
              /\ last.res.status \in {200, 404, 500} => last.selects = 1

\* A create whose insert failed was answered 500 after that one insert.
C11_Witness ==
    /\ OnTable /\ last.op = "create" /\ last.res.status = 500
    /\ last.fault /\ last.inserts = 1


\* The page is served by a server (init returns at once under file:).
Served == env.protocol = "http:"

WithIdentifier == Served /\ env.id # NoId

WithoutIdentifier == Served /\ env.id = NoId

\* The page is opened with no identifier in its URL.
Opened == WithoutIdentifier /\ pc.at = "loading"

\* C12 as stated: with no identifier in the URL, or with one whose fetch
\* fails, the creation form is eventually shown; with one whose fetch
\* succeeds the form stays hidden.
C12_AsStated ==
    /\ (Opened \/ (WithIdentifier /\ pc.fetched = "failed")) ~> dom.formShown
    /\ [](WithIdentifier /\ pc.fetched = "ok" => ~dom.formShown)

\* C12: on a served page with no identifier in the URL the creation form is
\* eventually shown; with an identifier in the URL the form is hidden from
\* the start of init on, whether its fetch succeeds or fails.
C12_FormShownOnlyWithoutId ==
    /\ Opened ~> dom.formShown
    /\ [](WithIdentifier /\ Loaded => ~dom.formShown)

\* An identifier whose fetch failed, init at its end, the form hidden.
C12_Witness ==
    /\ WithIdentifier /\ pc.at = "done" /\ pc.fetched = "failed"
    /\ ~dom.formShown


\* init has finished for an identifier whose greeting was found.
FoundAndDone == WithIdentifier /\ pc.at = "done" /\ pc.fetched = "ok"

C14_OneCreateInFlight == Len(inflight) <= 1

====
